---- MODULE Spec2Model ----
(***************************************************************************)
(* Model of opsult's Future<T, E> (src/src/Future.ts, lines 176-505): a    *)
(* Promise<Result<T, E>> whose two delivery callbacks both fulfil the      *)
(* underlying promise with a Result.  The host's promise machinery is      *)
(* modelled as far as the code relies on it: single assignment, reactions  *)
(* registered by then(), and a FIFO microtask queue.                       *)
(***************************************************************************)
EXTENDS Integers, Sequences, FiniteSets, TLC

\* ------------------------------------------------------------- bounds
MaxVal == 2      \* payloads are 1..MaxVal
MaxCalls == 3    \* invocations of the delivery callbacks of one Future
JoinSize == 3    \* members of a join
MaxChain == 2    \* combinators chained on one receiver
MaxStatic == 1   \* Future.ok / Future.err values next to a Future.from
MaxDo == 3       \* calls of Future.do
MaxObjs == 4     \* Option and Result instances, Option._none included

Val == 1..MaxVal
MaxFut == IF JoinSize + 1 > 2 * MaxChain + 1 THEN JoinSize + 1 ELSE 2 * MaxChain + 1
FutIds == 1..MaxFut

VARIABLES
    state,      \* FutIds -> "unused" | "pending" | "fulfilled" | "rejected"
    value,      \* FutIds -> the Result a fulfilled Future carries, the raw
                \*           reason of a rejected one, NoResult otherwise
    reactions,  \* FutIds -> reactions registered by then() while pending
    queue,      \* the host's microtask queue, FIFO
    nextId,     \* the next Future to be constructed
    handles,    \* FutIds -> the initializer kept ok/err for a later call
    calls,      \* FutIds -> the invocations of ok/err so far (history)
    all,        \* the Promise.all(futures) of Future.join
    joinFut,    \* the Future returned by Future.join, 0 before the call
    link,       \* FutIds -> the call that returned the Future
    called,     \* FutIds -> the arguments its continuation was invoked with
    ret,        \* FutIds -> what its continuation returned
    derived,    \* FutIds -> the Future this.then(callback) returned inside it
    seen,       \* the callbacks given to this.then that ran, with the Result
                \* each was handed, in the order they ran (history)
    source,     \* the promise given to Future.from: its state and outcome
    fromFut,    \* the Future returned by Future.from, 0 before the call
    parseFut,   \* the Future returned by Future.parse, 0 before the call
    workers,    \* Future.workerPool: source text -> its worker, if created
    objs,       \* the Option and Result instances built so far
    last        \* the last call on an Option or a Result and what it evaluated to

vars == <<state, value, reactions, queue, nextId, handles, calls,
          all, joinFut, link, called, ret, derived, seen, source, fromFut, parseFut, workers, objs, last>>

joinVars == <<all, joinFut>>
chainVars == <<link, called, ret, derived, seen>>
fromVars == <<source, fromFut, parseFut>>
doVars == <<workers>>
valVars == <<objs, last>>

\* ------------------------------------------------------------- Result
ok(v) == [isOk |-> TRUE, value |-> v]
err(e) == [isOk |-> FALSE, value |-> e]

NoResult == [none |-> TRUE]
Thrown == [thrown |-> TRUE]

\* What a delivery callback makes of its argument: Result.ok(value) for ok,
\* Result.err(reason) for err.
ResultOf(step) == IF step.kind = "ok" THEN ok(step.v) ELSE err(step.v)

\* ------------------------------------------------------------- promise
Heap == [state |-> state, value |-> value, reactions |-> reactions,
         queue |-> queue]

Outcome(h, f) == [st |-> h.state[f], res |-> h.value[f]]

MakeJob(reaction, outcome) ==
    [kind |-> reaction.kind, a |-> reaction.a, arg |-> outcome]

\* The promise leaves "pending" once; its reactions become microtasks, in
\* the order they were registered.
Settle(h, f, st, v) ==
    LET out == [st |-> st, res |-> v]
        rs == h.reactions[f]
    IN [h EXCEPT !.state[f] = st,
                 !.value[f] = v,
                 !.reactions[f] = <<>>,
                 !.queue = h.queue \o [i \in 1..Len(rs) |-> MakeJob(rs[i], out)]]

ResolveLastWins(h, f, r) ==
    IF h.state[f] = "unused" THEN h ELSE Settle(h, f, "fulfilled", r)

\* resolve(Result.ok(value)) / resolve(Result.err(reason)): a Result is no
\* thenable, so the first call fulfils the promise and later calls do nothing.
Resolve(h, f, r) ==
    IF h.state[f] # "pending" THEN h ELSE Settle(h, f, "fulfilled", r)

\* The promise constructor's reject: what a throwing initializer triggers.
Reject(h, f, x) ==
    IF h.state[f] # "pending" THEN h ELSE Settle(h, f, "rejected", x)

ThenPrepend(h, f, reaction) ==
    IF h.state[f] = "pending"
    THEN [h EXCEPT !.reactions[f] = <<reaction>> \o @]
    ELSE [h EXCEPT !.queue = <<MakeJob(reaction, Outcome(h, f))>> \o @]

\* then(): a reaction on a pending promise waits, on a settled one it is a
\* microtask at once.
Then(h, f, reaction) ==
    IF h.state[f] = "pending"
    THEN [h EXCEPT !.reactions[f] = Append(@, reaction)]
    ELSE [h EXCEPT !.queue = Append(@, MakeJob(reaction, Outcome(h, f)))]

SetHeap(h) ==
    /\ state' = h.state
    /\ value' = h.value
    /\ reactions' = h.reactions
    /\ queue' = h.queue

\* ------------------------------------------------------------- constructor
Step == [kind : {"ok", "err"}, v : Val]

RECURSIVE SeqsUpTo(_, _)
SeqsUpTo(S, n) ==
    IF n = 0 THEN {<<>>}
    ELSE LET shorter == SeqsUpTo(S, n - 1)
         IN shorter \cup {Append(s, x) : s \in {t \in shorter : Len(t) = n - 1}, x \in S}

\* An initializer: the delivery callbacks it invokes synchronously, in order,
\* whether it then throws, and whether it keeps the callbacks for later.
Initializers ==
    [prog : SeqsUpTo(Step, MaxCalls), throws : BOOLEAN, escapes : BOOLEAN]

\* The initializers of the members of a join: one that keeps the callbacks
\* and calls nothing yet (a timer or an operation calls one later, or never),
\* and one that throws.
MemberInitializers ==
    {[prog |-> <<>>, throws |-> FALSE, escapes |-> TRUE],
     [prog |-> <<>>, throws |-> TRUE, escapes |-> FALSE]}

RECURSIVE RunProg(_, _, _)
RunProg(h, f, prog) ==
    IF prog = <<>> THEN h
    ELSE RunProg(Resolve(h, f, ResultOf(Head(prog))), f, Tail(prog))

\* new Future(executor): super((resolve) => executor(ok, err)).  The executor
\* runs inside the promise constructor, which turns a throw into a rejection.
Construct(h, f, init) ==
    LET h1 == RunProg([h EXCEPT !.state[f] = "pending"], f, init.prog)
    IN IF init.throws THEN Reject(h1, f, Thrown) ELSE h1

NewFuture(f, init) ==
    /\ SetHeap(Construct(Heap, f, init))
    /\ nextId' = f + 1
    /\ handles' = [handles EXCEPT ![f] = init.escapes]
    /\ calls' = [calls EXCEPT ![f] = init.prog]

\* A callback the initializer kept is invoked later (a timer, an operation).
Invoke(f, step) ==
    /\ SetHeap(Resolve(Heap, f, ResultOf(step)))
    /\ calls' = [calls EXCEPT ![f] = Append(@, step)]
    /\ UNCHANGED <<nextId, handles>>

InitCore ==
    /\ state = [f \in FutIds |-> "unused"]
    /\ value = [f \in FutIds |-> NoResult]
    /\ reactions = [f \in FutIds |-> <<>>]
    /\ queue = <<>>
    /\ nextId = 1
    /\ handles = [f \in FutIds |-> FALSE]
    /\ calls = [f \in FutIds |-> <<>>]

InitJoin ==
    /\ all = [st |-> "idle", results |-> <<>>, remaining |-> 0, order |-> <<>>]
    /\ joinFut = 0

\* ------------------------------------------------------------- Future.join
\* The callback of Promise.all(futures).then(...): one pass over the results,
\* in index order, pushing each payload on values or on errors.
RECURSIVE ValuesUnshift(_)
ValuesUnshift(results) ==
    IF results = <<>> THEN <<>>
    ELSE LET r == Head(results)
         IN ValuesUnshift(Tail(results)) \o (IF r.isOk THEN <<r.value>> ELSE <<>>)

RECURSIVE Values(_)
Values(results) ==
    IF results = <<>> THEN <<>>
    ELSE LET r == Head(results)
         IN (IF r.isOk THEN <<r.value>> ELSE <<>>) \o Values(Tail(results))

RECURSIVE Errors(_)
Errors(results) ==
    IF results = <<>> THEN <<>>
    ELSE LET r == Head(results)
         IN (IF r.isOk THEN <<>> ELSE <<r.value>>) \o Errors(Tail(results))

JoinResultByValues(results) ==
    IF Len(Values(results)) = 0 THEN err(Errors(results)) ELSE ok(Values(results))

\* if (errors.length !== 0) err(errors) else ok(values)
JoinResult(results) ==
    IF Len(Errors(results)) # 0 THEN err(Errors(results)) ELSE ok(Values(results))

\* Promise.all's resolveElement: the result is stored at the member's index
\* and the all-promise is fulfilled when every member has reported.
AllElementFailFast(a, idx, r) ==
    LET left == a.remaining - 1
        done == left = 0 \/ ~r.isOk
    IN [st |-> IF done /\ a.st = "pending" THEN "fulfilled" ELSE a.st,
        results |-> IF a.st # "pending" THEN a.results
                    ELSE IF ~r.isOk THEN <<r>>
                    ELSE [a.results EXCEPT ![idx] = r],
        remaining |-> left,
        order |-> Append(a.order, idx)]

AllElementArrival(a, idx, r) ==
    LET left == a.remaining - 1
    IN [st |-> IF left = 0 /\ a.st = "pending" THEN "fulfilled" ELSE a.st,
        results |-> [a.results EXCEPT ![Len(a.order) + 1] = r],
        remaining |-> left,
        order |-> Append(a.order, idx)]

AllElement(a, idx, r) ==
    LET filled == [a.results EXCEPT ![idx] = r]
        left == a.remaining - 1
    IN [st |-> IF left = 0 /\ a.st = "pending" THEN "fulfilled" ELSE a.st,
        results |-> filled,
        remaining |-> left,
        order |-> Append(a.order, idx)]

\* Promise.all's reject: the first rejected member rejects the all-promise.
AllReject(a) ==
    [a EXCEPT !.st = IF a.st = "pending" THEN "rejected" ELSE @]

JoinThenJob(results) ==
    [kind |-> "joinThen", a |-> 0, arg |-> [st |-> "fulfilled", res |-> results]]

\* ------------------------------------------------------------- combinators
\* null, the reason Option.none delivers.
Null == 0

\* The continuations of the model compute v => v + 1 on the payload.
Inc(v) == v + 1

StepOf(r) == [kind |-> IF r.isOk THEN "ok" ELSE "err", v |-> r.value]

ResultDeliversOk(r) == ok(r.value)

\* Result.futureExecutor: resolveOk(_value) when _isOk, else resolveErr(_value).
ResultDelivers(r) == IF r.isOk THEN ok(r.value) ELSE err(r.value)

OptionDeliversOk(o) == ok(o.value)

\* Option.futureExecutor: resolveOk(_value) when _isSome, else resolveErr(null).
OptionDelivers(o) == IF o.isSome THEN ok(o.value) ELSE err(Null)

\* What a continuation given v may do: return a Future (settled Ok or Err,
\* pending with its callbacks kept, or rejected by a throwing initializer),
\* a Result, an Option, or throw.
FnReturns(v) ==
    {[shape |-> "future", init |-> i, obj |-> NoResult] : i \in
        {[prog |-> <<[kind |-> "ok", v |-> Inc(v)]>>, throws |-> FALSE, escapes |-> FALSE],
         [prog |-> <<[kind |-> "err", v |-> v]>>, throws |-> FALSE, escapes |-> FALSE],
         [prog |-> <<>>, throws |-> FALSE, escapes |-> TRUE],
         [prog |-> <<>>, throws |-> TRUE, escapes |-> FALSE]}}
    \cup {[shape |-> "result", init |-> NoResult, obj |-> r] : r \in {ok(Inc(v)), err(v)}}
    \cup {[shape |-> "option", init |-> NoResult, obj |-> o] : o \in
            {[isSome |-> TRUE, value |-> Inc(v)], [isSome |-> FALSE, value |-> Null]}}
    \cup {[shape |-> "throw", init |-> NoResult, obj |-> NoResult]}

\* What the function given to map may do with v: return v + 1, or throw.
MapReturns(v) ==
    {[shape |-> "value", init |-> NoResult, obj |-> [value |-> Inc(v)]],
     [shape |-> "throw", init |-> NoResult, obj |-> NoResult]}

AndThenCallsAlways(thisResult) == TRUE

\* andThen: if (thisResult.isOk()) fn(thisResult.unwrap()) ...
AndThenCalls(thisResult) == thisResult.isOk

OrElseCallsAlways(thisResult) == TRUE

\* orElse: if (thisResult.isOk()) ok(...) else f(thisResult.unwrapErr()) ...
OrElseCalls(thisResult) == ~thisResult.isOk

MapCallsAlways(thisResult) == TRUE

\* map: if (thisResult.isOk()) ok(f(thisResult.unwrap())) ...
MapCalls(thisResult) == thisResult.isOk

\* andThen and map on Err: err(thisResult.unwrapErr()).
PassErr(thisResult) == err(thisResult.value)

\* orElse on Ok: ok(thisResult.unwrap()).
PassOk(thisResult) == ok(thisResult.value)

AdoptedAsOk(result) == ok(result.value)

AdoptedSwapped(result) == IF result.isOk THEN err(result.value) ELSE ok(result.value)

\* Future.futureExecutor: this.then(result => result.futureExecutor(ok, err)).
Adopted(result) == ResultDelivers(result)

\* The Future that this.then(callback) returns: then() builds it with the
\* receiver's constructor, so a callback that throws, or a rejection passed
\* through, reaches the err of that Future and fulfils it with Err(reason).
ThenDerived(failed, reason) ==
    [st |-> "fulfilled", res |-> IF failed THEN err(reason) ELSE ok(NoResult)]

\* The callback of a then() reaction runs with the Result of the fulfilled
\* receiver; on a rejected receiver it does not run.
Observed(job) ==
    IF job.arg.st = "fulfilled"
    THEN Append(seen, [d |-> job.a, res |-> job.arg.res])
    ELSE seen

\* The callback delivers r on d without invoking a continuation.
DeliverOn(h, d, r) ==
    /\ SetHeap(Resolve(h, d, r))
    /\ calls' = [calls EXCEPT ![d] = Append(@, StepOf(r))]
    /\ UNCHANGED <<nextId, handles, called, ret>>

\* other = f(v); other.futureExecutor(ok, err), with ok and err those of d.
Continue(h, d, v, r) ==
    /\ called' = [called EXCEPT ![d] = Append(@, v)]
    /\ derived' = [derived EXCEPT ![d] = ThenDerived(r.shape = "throw", Thrown)]
    /\ ret' = [ret EXCEPT ![d] =
            [shape |-> r.shape,
             inner |-> IF r.shape = "future" THEN nextId ELSE 0,
             obj |-> r.obj]]
    /\ IF r.shape = "future"
       THEN /\ SetHeap(Then(Construct(h, nextId, r.init), nextId,
                            [kind |-> "adopt", a |-> d]))
            /\ nextId' = nextId + 1
            /\ handles' = [handles EXCEPT ![nextId] = r.init.escapes]
            /\ calls' = [calls EXCEPT ![nextId] = r.init.prog]
       ELSE IF r.shape = "throw"
       THEN /\ SetHeap(h)
            /\ UNCHANGED <<nextId, handles, calls>>
       ELSE /\ LET res == IF r.shape = "result" THEN ResultDelivers(r.obj)
                          ELSE IF r.shape = "option" THEN OptionDelivers(r.obj)
                          ELSE ok(r.obj.value)
               IN /\ SetHeap(Resolve(h, d, res))
                  /\ calls' = [calls EXCEPT ![d] = Append(@, StepOf(res))]
            /\ UNCHANGED <<nextId, handles>>

InitChain ==
    /\ link = [f \in FutIds |-> [kind |-> "none", recv |-> 0]]
    /\ called = [f \in FutIds |-> <<>>]
    /\ ret = [f \in FutIds |-> [shape |-> "none", inner |-> 0, obj |-> NoResult]]
    /\ derived = [f \in FutIds |-> [st |-> "none", res |-> NoResult]]
    /\ seen = <<>>

\* ------------------------------------------------------------- Option and Result values
\* An instance: its class, its tag (_isSome / _isOk) and its _value.  The
\* instances live in objs; a reference is an index into it.
OptionObject(isSome, v) == [class |-> "Option", tag |-> isSome, value |-> v]
ResultObject(isOk, v) == [class |-> "Result", tag |-> isOk, value |-> v]

\* Option._none, the one instance none() returns; its _value is undefined.
NoneRef == 1

\* What a call evaluates to: a reference, a payload, or a panic.
Ref(i) == [kind |-> "ref", v |-> i]
Payload(v) == [kind |-> "value", v |-> v]
Panics == [kind |-> "panic", v |-> Null]

\* What a call leaves behind: the instances, what it evaluated to, and the
\* callbacks it invoked with their arguments, in order.
Ret(h, out) == [objs |-> h, out |-> out, invoked |-> <<>>]
Alloc(h, obj) == [objs |-> Append(h, obj), out |-> Ref(Len(h) + 1), invoked |-> <<>>]

\* The call invoked fn(arg) and went on as res.
Calling(fn, arg, res) == [res EXCEPT !.invoked = <<[fn |-> fn, arg |-> arg]>> \o @]

isSome(o) == o.tag
isNone(o) == ~o.tag
isOk(o) == o.tag
isErr(o) == ~o.tag

OptionSome(h, v) == Alloc(h, OptionObject(TRUE, v))
OptionNone(h) == Ret(h, Ref(NoneRef))
ResultOk(h, v) == Alloc(h, ResultObject(TRUE, v))
ResultErr(h, e) == Alloc(h, ResultObject(FALSE, e))

\* What a callback that returns an Option / a Result builds from v.
OptionFrom(h, shape, v) == IF shape = "some" THEN OptionSome(h, v) ELSE OptionNone(h)
ResultFrom(h, shape, v) == IF shape = "ok" THEN ResultOk(h, v) ELSE ResultErr(h, v)

\* --- Option methods, on the instance at r
OptionUnwrapUnchecked(h, r) == Ret(h, Payload(h[r].value))

OptionUnwrap(h, r) ==
    IF h[r].tag THEN Ret(h, Payload(h[r].value)) ELSE Ret(h, Panics)

OptionUnwrapOr(h, r, defaultValue) ==
    IF h[r].tag THEN Ret(h, Payload(h[r].value)) ELSE Ret(h, Payload(defaultValue))

\* unwrapOrElse(f) with f = () => defaultValue
OptionUnwrapOrElse(h, r, defaultValue) ==
    IF h[r].tag THEN Ret(h, Payload(h[r].value))
    ELSE Calling("defaultValue", Null, Ret(h, Payload(defaultValue)))

OptionMapInPlace(h, r) ==
    IF h[r].tag THEN Ret([h EXCEPT ![r].value = Inc(@)], Ref(r)) ELSE OptionNone(h)

\* map(f) with f = v => v + 1
OptionMap(h, r) ==
    IF h[r].tag THEN Calling("f", h[r].value, OptionSome(h, Inc(h[r].value)))
    ELSE OptionNone(h)

OptionOr(h, r, other) == IF h[r].tag THEN Ret(h, Ref(r)) ELSE Ret(h, Ref(other))

OptionOrElseEager(h, r, shape) ==
    Calling("defaultValue", Null,
            IF h[r].tag THEN Ret(h, Ref(r)) ELSE OptionFrom(h, shape, 1))

\* orElse(defaultValue) with defaultValue = () => some(1) or () => none()
OptionOrElse(h, r, shape) ==
    IF h[r].tag THEN Ret(h, Ref(r))
    ELSE Calling("defaultValue", Null, OptionFrom(h, shape, 1))

OptionAndAlways(h, r, other) == Ret(h, Ref(other))

OptionAnd(h, r, other) == IF h[r].tag THEN Ret(h, Ref(other)) ELSE OptionNone(h)

\* map(f) with f = y => x + y
OptionMapAdd(h, r, x) ==
    IF h[r].tag THEN Calling("f", h[r].value, OptionSome(h, x + h[r].value))
    ELSE OptionNone(h)

\* x => some(2).map(y => x + y), called with x
OptionNested(h, x) ==
    LET inner == OptionSome(h, 2)
    IN OptionMapAdd(inner.objs, inner.out.v, x)

\* andThen(other) with other = x => some(x + 1), x => none() or the nested
\* callback above
OptionAndThen(h, r, shape) ==
    IF h[r].tag
    THEN Calling("other", h[r].value,
                 IF shape = "nested" THEN OptionNested(h, h[r].value)
                 ELSE OptionFrom(h, shape, Inc(h[r].value)))
    ELSE OptionNone(h)

\* match(v => v + 1, () => null)
OptionMatch(h, r) ==
    IF h[r].tag THEN Calling("some", h[r].value, Ret(h, Payload(Inc(h[r].value))))
    ELSE Calling("none", Null, Ret(h, Payload(Null)))

\* --- Result methods, on the instance at r
ResultAndCopy(h, r, res) ==
    IF h[r].tag THEN Ret(h, Ref(res)) ELSE ResultErr(h, h[r].value)

ResultAnd(h, r, res) == IF h[r].tag THEN Ret(h, Ref(res)) ELSE Ret(h, Ref(r))

ResultOr(h, r, res) == IF h[r].tag THEN Ret(h, Ref(r)) ELSE Ret(h, Ref(res))

ResultAndThenEager(h, r, shape) ==
    Calling("f", h[r].value,
            IF h[r].tag THEN ResultFrom(h, shape, Inc(h[r].value)) ELSE Ret(h, Ref(r)))

\* andThen(f) with f = v => ok(v + 1) or v => err(v + 1)
ResultAndThen(h, r, shape) ==
    IF h[r].tag THEN Calling("f", h[r].value, ResultFrom(h, shape, Inc(h[r].value)))
    ELSE Ret(h, Ref(r))

\* orElse(f) with f = e => ok(e + 1) or e => err(e + 1)
ResultOrElse(h, r, shape) ==
    IF h[r].tag THEN Ret(h, Ref(r))
    ELSE Calling("f", h[r].value, ResultFrom(h, shape, Inc(h[r].value)))

ResultUnwrap(h, r) ==
    IF h[r].tag THEN Ret(h, Payload(h[r].value)) ELSE Ret(h, Panics)

ResultUnwrapErr(h, r) ==
    IF h[r].tag THEN Ret(h, Panics) ELSE Ret(h, Payload(h[r].value))

ResultUnwrapOr(h, r, defaultValue) ==
    IF h[r].tag THEN Ret(h, Payload(h[r].value)) ELSE Ret(h, Payload(defaultValue))

ResultUnwrapOrElseEager(h, r, defaultValue) ==
    Calling("defaultValue", Null,
            Ret(h, Payload(IF h[r].tag THEN h[r].value ELSE defaultValue)))

\* unwrapOrElse(f) with f = () => defaultValue
ResultUnwrapOrElse(h, r, defaultValue) ==
    IF h[r].tag THEN Ret(h, Payload(h[r].value))
    ELSE Calling("defaultValue", Null, Ret(h, Payload(defaultValue)))

ResultMapBoth(h, r) ==
    IF h[r].tag THEN Calling("f", h[r].value, ResultOk(h, Inc(h[r].value)))
    ELSE Calling("f", h[r].value, ResultErr(h, Inc(h[r].value)))

\* map(f) with f = v => v + 1
ResultMap(h, r) ==
    IF h[r].tag THEN Calling("f", h[r].value, ResultOk(h, Inc(h[r].value)))
    ELSE Ret(h, Ref(r))

\* mapErr(f) with f = e => e + 1
ResultMapErr(h, r) ==
    IF h[r].tag THEN Ret(h, Ref(r))
    ELSE Calling("f", h[r].value, ResultErr(h, Inc(h[r].value)))

ResultMatchBoth(h, r) ==
    Calling("ok", h[r].value,
            Calling("err", h[r].value,
                    Ret(h, Payload(IF h[r].tag THEN Inc(h[r].value) ELSE h[r].value))))

\* match(v => v + 1, e => e)
ResultMatch(h, r) ==
    IF h[r].tag THEN Calling("ok", h[r].value, Ret(h, Payload(Inc(h[r].value))))
    ELSE Calling("err", h[r].value, Ret(h, Payload(h[r].value)))

InitValues ==
    /\ objs = <<OptionObject(FALSE, Null)>>
    /\ last = [op |-> "", recv |-> 0, arg |-> Null, shape |-> "", out |-> Panics, invoked |-> <<>>]

\* ------------------------------------------------------------- workers
\* The source texts of the functions given to Future.do.
Sources == {"() => 1", "() => 2", "() => { throw new Error('boom') }"}

\* What the worker posts after running main(): {isOk: true, value} or
\* {isOk: false, value: e}.
Runs(str) ==
    IF str = "() => 1" THEN [isOk |-> TRUE, value |-> 1]
    ELSE IF str = "() => 2" THEN [isOk |-> TRUE, value |-> 2]
    ELSE [isOk |-> FALSE, value |-> [message |-> "boom"]]

\* A worker: whether it exists, the Future its onmessage handler delivers
\* to, the requests it has not run yet and the replies not yet dispatched.
NoWorker == [created |-> FALSE, onmessage |-> 0, inbox |-> 0, outbox |-> <<>>]

InitDo == workers = [str \in Sources |-> NoWorker]

\* ------------------------------------------------------------- scenario: constructor
\* One Future built by any initializer; the callbacks it kept are invoked
\* later, in any order, any number of times up to MaxCalls.
New ==
    \E init \in Initializers :
        /\ nextId = 1
        /\ NewFuture(nextId, init)
        /\ UNCHANGED <<joinVars, chainVars, fromVars, doVars, valVars>>

Deliver ==
    \E step \in Step :
        /\ state[1] # "unused"
        /\ handles[1]
        /\ Len(calls[1]) < MaxCalls
        /\ Invoke(1, step)
        /\ UNCHANGED <<joinVars, chainVars, fromVars, doVars, valVars>>

Init ==
    /\ InitCore
    /\ InitJoin
    /\ InitChain
    /\ source = [st |-> "pending", res |-> NoResult]
    /\ fromFut = 0
    /\ parseFut = 0
    /\ InitDo
    /\ InitValues

Next == New \/ Deliver

Spec == Init /\ [][Next]_vars

\* ------------------------------------------------------------- scenario: join
\* Up to JoinSize Futures are built, Future.join is called on all of them,
\* and the members whose initializer kept its callbacks settle in any order.
Members == 1..(IF joinFut = 0 THEN nextId - 1 ELSE joinFut - 1)

NewMember ==
    \E init \in MemberInitializers :
        /\ joinFut = 0
        /\ nextId <= JoinSize
        /\ NewFuture(nextId, init)
        /\ UNCHANGED <<joinVars, chainVars, fromVars, doVars, valVars>>

\* A kept callback is invoked by a timer or an operation, at any moment.
DeliverMember ==
    \E f \in 1..JoinSize, step \in Step :
        /\ state[f] = "pending"
        /\ handles[f]
        /\ Invoke(f, step)
        /\ UNCHANGED <<joinVars, chainVars, fromVars, doVars, valVars>>

\* Future.join(futures): new Future((ok, err) => Promise.all(futures).then(cb)).
\* Promise.all resolves every member (a thenable job each) and counts them.
Join ==
    LET n == nextId - 1
        h == [Heap EXCEPT !.state[nextId] = "pending"]
    IN /\ joinFut = 0
       /\ joinFut' = nextId
       /\ nextId' = nextId + 1
       /\ all' = [st |-> IF n = 0 THEN "fulfilled" ELSE "pending",
                  results |-> [i \in 1..n |-> NoResult],
                  remaining |-> n,
                  order |-> <<>>]
       /\ SetHeap([h EXCEPT !.queue =
              @ \o (IF n = 0 THEN <<JoinThenJob(<<>>)>>
                    ELSE [i \in 1..n |->
                            [kind |-> "thenable", a |-> i, arg |-> NoResult]])])
       /\ UNCHANGED <<handles, calls, chainVars, fromVars, doVars, valVars>>

\* The thenable job of Promise.resolve(futures[i]): futures[i].then(...).
RunThenable ==
    /\ queue # <<>>
    /\ Head(queue).kind = "thenable"
    /\ LET i == Head(queue).a
           h == [Heap EXCEPT !.queue = Tail(@)]
       IN SetHeap(Then(h, i, [kind |-> "element", a |-> i]))
    /\ UNCHANGED <<nextId, handles, calls, all, joinFut, chainVars, fromVars, doVars, valVars>>

\* Member i has settled: Promise.all stores its Result, or rejects.
RunElement ==
    /\ queue # <<>>
    /\ Head(queue).kind = "element"
    /\ LET i == Head(queue).a
           out == Head(queue).arg
           a == IF out.st = "fulfilled" THEN AllElement(all, i, out.res)
                ELSE AllReject(all)
       IN /\ all' = a
          /\ queue' = Tail(queue) \o
                (IF a.st = "fulfilled" /\ all.st = "pending"
                 THEN <<JoinThenJob(a.results)>> ELSE <<>>)
    /\ UNCHANGED <<state, value, reactions, nextId, handles, calls, joinFut, chainVars, fromVars, doVars, valVars>>

\* The callback of Promise.all(futures).then: partition, then ok or err.
RunJoinThen ==
    /\ queue # <<>>
    /\ Head(queue).kind = "joinThen"
    /\ LET r == JoinResult(Head(queue).arg.res)
           h == [Heap EXCEPT !.queue = Tail(@)]
       IN /\ SetHeap(Resolve(h, joinFut, r))
          /\ calls' = [calls EXCEPT ![joinFut] =
                Append(@, [kind |-> IF r.isOk THEN "ok" ELSE "err", v |-> r.value])]
    /\ UNCHANGED <<nextId, handles, all, joinFut, chainVars, fromVars, doVars, valVars>>

Microtask == RunThenable \/ RunElement \/ RunJoinThen

NextJoin == NewMember \/ DeliverMember \/ Join \/ Microtask

\* The host always drains its microtask queue.
SpecJoin == Init /\ [][NextJoin]_vars /\ WF_vars(Microtask)

\* ------------------------------------------------------------- scenario: chain
\* A receiver and up to MaxChain combinators, each called on the Future the
\* previous one returned; continuations behave in any of the modelled ways.
ChainInitializers ==
    {[prog |-> <<st>>, throws |-> FALSE, escapes |-> FALSE] : st \in Step}
    \cup {[prog |-> <<>>, throws |-> FALSE, escapes |-> TRUE],
          [prog |-> <<>>, throws |-> TRUE, escapes |-> FALSE]}

Links == {d \in FutIds : link[d].kind # "none"}

Tip == IF Links = {} THEN 1 ELSE CHOOSE d \in Links : \A e \in Links : e <= d

NewReceiver ==
    \E init \in ChainInitializers :
        /\ nextId = 1
        /\ NewFuture(1, init)
        /\ UNCHANGED <<joinVars, chainVars, fromVars, doVars, valVars>>

DeliverChain ==
    \E f \in FutIds, step \in Step :
        /\ state[f] = "pending"
        /\ handles[f]
        /\ Invoke(f, step)
        /\ UNCHANGED <<joinVars, chainVars, fromVars, doVars, valVars>>

\* this.andThen / this.orElse / this.map: new Future((ok, err) => this.then(cb)).
Attach(kind) ==
    /\ state[Tip] # "unused"
    /\ Cardinality(Links) < MaxChain
    /\ SetHeap(Then([Heap EXCEPT !.state[nextId] = "pending"], Tip,
                    [kind |-> kind, a |-> nextId]))
    /\ link' = [link EXCEPT ![nextId] = [kind |-> kind, recv |-> Tip]]
    /\ nextId' = nextId + 1
    /\ UNCHANGED <<handles, calls, called, ret, derived, seen, joinVars, fromVars, doVars, valVars>>

AndThen == Attach("andThen")

OrElse == Attach("orElse")

Map == Attach("map")

\* The callback andThen gave to this.then.  A rejected receiver never runs it.
RunAndThen ==
    /\ queue # <<>>
    /\ Head(queue).kind = "andThen"
    /\ LET d == Head(queue).a
           out == Head(queue).arg
           h == [Heap EXCEPT !.queue = Tail(@)]
       IN IF out.st # "fulfilled"
          THEN /\ SetHeap(h)
               /\ derived' = [derived EXCEPT ![d] = ThenDerived(TRUE, out.res)]
               /\ UNCHANGED <<nextId, handles, calls, called, ret>>
          ELSE IF AndThenCalls(out.res)
          THEN \E r \in FnReturns(out.res.value) : Continue(h, d, out.res.value, r)
          ELSE /\ DeliverOn(h, d, PassErr(out.res))
               /\ derived' = [derived EXCEPT ![d] = ThenDerived(FALSE, NoResult)]
    /\ seen' = Observed(Head(queue))
    /\ UNCHANGED <<link, joinVars, fromVars, doVars, valVars>>

\* The callback orElse gave to this.then.
RunOrElse ==
    /\ queue # <<>>
    /\ Head(queue).kind = "orElse"
    /\ LET d == Head(queue).a
           out == Head(queue).arg
           h == [Heap EXCEPT !.queue = Tail(@)]
       IN IF out.st # "fulfilled"
          THEN /\ SetHeap(h)
               /\ derived' = [derived EXCEPT ![d] = ThenDerived(TRUE, out.res)]
               /\ UNCHANGED <<nextId, handles, calls, called, ret>>
          ELSE IF OrElseCalls(out.res)
          THEN \E r \in FnReturns(out.res.value) : Continue(h, d, out.res.value, r)
          ELSE /\ DeliverOn(h, d, PassOk(out.res))
               /\ derived' = [derived EXCEPT ![d] = ThenDerived(FALSE, NoResult)]
    /\ seen' = Observed(Head(queue))
    /\ UNCHANGED <<link, joinVars, fromVars, doVars, valVars>>

\* The callback map gave to this.then.
RunMap ==
    /\ queue # <<>>
    /\ Head(queue).kind = "map"
    /\ LET d == Head(queue).a
           out == Head(queue).arg
           h == [Heap EXCEPT !.queue = Tail(@)]
       IN IF out.st # "fulfilled"
          THEN /\ SetHeap(h)
               /\ derived' = [derived EXCEPT ![d] = ThenDerived(TRUE, out.res)]
               /\ UNCHANGED <<nextId, handles, calls, called, ret>>
          ELSE IF MapCalls(out.res)
          THEN \E r \in MapReturns(out.res.value) : Continue(h, d, out.res.value, r)
          ELSE /\ DeliverOn(h, d, PassErr(out.res))
               /\ derived' = [derived EXCEPT ![d] = ThenDerived(FALSE, NoResult)]
    /\ seen' = Observed(Head(queue))
    /\ UNCHANGED <<link, joinVars, fromVars, doVars, valVars>>

\* The callback Future.futureExecutor gave to the returned Future's then.
RunAdopt ==
    /\ queue # <<>>
    /\ Head(queue).kind = "adopt"
    /\ LET d == Head(queue).a
           out == Head(queue).arg
           h == [Heap EXCEPT !.queue = Tail(@)]
       IN IF out.st # "fulfilled"
          THEN SetHeap(h) /\ UNCHANGED <<nextId, handles, calls, called, ret>>
          ELSE DeliverOn(h, d, Adopted(out.res))
    /\ UNCHANGED <<link, derived, seen, joinVars, fromVars, doVars, valVars>>

ChainMicrotask == RunAndThen \/ RunOrElse \/ RunMap \/ RunAdopt

NextChain ==
    NewReceiver \/ DeliverChain \/ AndThen \/ OrElse \/ Map \/ ChainMicrotask

SpecChain == Init /\ [][NextChain]_vars /\ WF_vars(ChainMicrotask)

\* ------------------------------------------------------------- scenario: observers
\* Several continuations are attached to one Future, before or after it
\* settles: through andThen, orElse, map, or by awaiting it.
Observers == {d \in FutIds : link[d].recv = 1}

Observe(kind) ==
    /\ state[1] # "unused"
    /\ Cardinality(Observers) < MaxChain
    /\ SetHeap(Then([Heap EXCEPT !.state[nextId] = "pending"], 1,
                    [kind |-> kind, a |-> nextId]))
    /\ link' = [link EXCEPT ![nextId] = [kind |-> kind, recv |-> 1]]
    /\ nextId' = nextId + 1
    /\ UNCHANGED <<handles, calls, called, ret, derived, seen, joinVars, fromVars, doVars, valVars>>

ObserveAndThen == Observe("andThen")

ObserveOrElse == Observe("orElse")

ObserveMap == Observe("map")

\* await future: then(callback) on the Future.
Await == Observe("await")

\* The callback of an await resumes the awaiting code with the Result.
RunAwait ==
    /\ queue # <<>>
    /\ Head(queue).kind = "await"
    /\ seen' = Observed(Head(queue))
    /\ derived' = [derived EXCEPT ![Head(queue).a] =
            ThenDerived(Head(queue).arg.st # "fulfilled", Head(queue).arg.res)]
    /\ queue' = Tail(queue)
    /\ UNCHANGED <<state, value, reactions, nextId, handles, calls, link, called, ret,
                   joinVars, fromVars, doVars, valVars>>

\* The continuations here return a Result or an Option, or throw: none
\* builds a further Future.
ObserveMicrotask ==
    \/ (RunAndThen \/ RunOrElse \/ RunMap) /\ nextId' = nextId
    \/ RunAwait

NextObserve ==
    \/ NewReceiver \/ DeliverChain
    \/ ObserveAndThen \/ ObserveOrElse \/ ObserveMap \/ Await
    \/ ObserveMicrotask

SpecObserve == Init /\ [][NextObserve]_vars /\ WF_vars(ObserveMicrotask)

\* ------------------------------------------------------------- scenario: from
\* What a promise can be rejected with, described by what Future.from asks
\* of it: typeof, instanceof Error, instanceof Panic, whether it is null,
\* "message" in it, its message, and String(it).
Msgs == {"boom", "oops", ""}

ErrorInstance(m) ==
    [typeof |-> "object", isError |-> TRUE, isPanic |-> FALSE, isNull |-> FALSE,
     hasMessage |-> TRUE, message |-> m, string |-> "Error: " \o m]

\* new Panic(message): implements Error without extending it.
Panic(m) ==
    [typeof |-> "object", isError |-> FALSE, isPanic |-> TRUE, isNull |-> FALSE,
     hasMessage |-> TRUE, message |-> m, string |-> "Panic: " \o m]

PlainObject(hasMessage, m) ==
    [typeof |-> "object", isError |-> FALSE, isPanic |-> FALSE, isNull |-> FALSE,
     hasMessage |-> hasMessage, message |-> m, string |-> "[object Object]"]

NullValue ==
    [typeof |-> "object", isError |-> FALSE, isPanic |-> FALSE, isNull |-> TRUE,
     hasMessage |-> FALSE, message |-> "", string |-> "null"]

UndefinedValue ==
    [typeof |-> "undefined", isError |-> FALSE, isPanic |-> FALSE, isNull |-> FALSE,
     hasMessage |-> FALSE, message |-> "", string |-> "undefined"]

StringValue(s) ==
    [typeof |-> "string", isError |-> FALSE, isPanic |-> FALSE, isNull |-> FALSE,
     hasMessage |-> FALSE, message |-> "", string |-> s]

NumberValue(n) ==
    [typeof |-> "number", isError |-> FALSE, isPanic |-> FALSE, isNull |-> FALSE,
     hasMessage |-> FALSE, message |-> "", string |-> ToString(n)]

BooleanValue(b) ==
    [typeof |-> "boolean", isError |-> FALSE, isPanic |-> FALSE, isNull |-> FALSE,
     hasMessage |-> FALSE, message |-> "", string |-> IF b THEN "true" ELSE "false"]

\* A function object that has a message property.
FunctionValue(m) ==
    [typeof |-> "function", isError |-> FALSE, isPanic |-> FALSE, isNull |-> FALSE,
     hasMessage |-> TRUE, message |-> m, string |-> "function"]

\* The TypeError of `"message" in null`.
InOperatorTypeError == ErrorInstance("Cannot use 'in' operator")

Rejections ==
    {ErrorInstance(m) : m \in Msgs} \cup {Panic(m) : m \in Msgs}
    \cup {PlainObject(TRUE, m) : m \in Msgs} \cup {PlainObject(FALSE, "")}
    \cup {NullValue, UndefinedValue} \cup {StringValue(m) : m \in Msgs}
    \cup {FunctionValue(m) : m \in Msgs}
    \cup {NumberValue(n) : n \in Val} \cup {BooleanValue(b) : b \in BOOLEAN}

String(x) == x.string

\* A handler's completion: the reason it called err with and whether it
\* then threw (the thrown value is in thrown).
Returned(e) == [delivers |-> TRUE, reason |-> e, throws |-> FALSE, thrown |-> NullValue]
Threw(x) == [delivers |-> FALSE, reason |-> NullValue, throws |-> TRUE, thrown |-> x]

\* The draft of from that hands the reason to err as it is.
FromCatchRaw(errorValue) == Returned(errorValue)

\* The first catch handler of from.
FromCatch(errorValue) ==
    IF errorValue.typeof = "object" /\ errorValue.isError
        THEN Returned(errorValue)
    ELSE IF errorValue.typeof = "object" /\ errorValue.isNull
        THEN Threw(InOperatorTypeError)
    ELSE IF errorValue.typeof = "object" /\ errorValue.hasMessage
        THEN Returned(Panic(errorValue.message))
    ELSE Returned(Panic(String(errorValue)))

\* A chain that ends without a handler: the rejection stays unhandled.
FromCatchAgainAbsent(error) == Threw(error)

\* The second catch handler of from.
FromCatchAgain(error) ==
    IF error.isError \/ error.isPanic
    THEN Returned(error)
    ELSE Returned(Panic(String(error)))

FromJob(kind, out) == [kind |-> kind, a |-> 0, arg |-> out]

Undefined == [st |-> "fulfilled", res |-> NoResult]

\* The promise given to from settles: fulfilled with v or rejected with x.
\* If from has been called, its then(ok) reaction becomes a microtask.
SettleSource ==
    \E out \in [st : {"fulfilled"}, res : Val] \cup [st : {"rejected"}, res : Rejections] :
        /\ source.st = "pending"
        /\ source' = out
        /\ queue' = IF fromFut = 0 THEN queue ELSE Append(queue, FromJob("fromThen", out))
        /\ UNCHANGED <<state, value, reactions, nextId, handles, calls, fromFut, parseFut,
                       joinVars, chainVars, doVars, valVars>>

\* Future.from(promise): the initializer registers promise.then(ok) and the
\* two catch handlers and returns.
From ==
    /\ fromFut = 0
    /\ LET f == nextId
           h == Construct(Heap, f, [prog |-> <<>>, throws |-> FALSE, escapes |-> TRUE])
       IN /\ SetHeap(IF source.st = "pending" THEN h
                     ELSE [h EXCEPT !.queue = Append(@, FromJob("fromThen", source))])
          /\ fromFut' = f
          /\ nextId' = f + 1
          /\ handles' = [handles EXCEPT ![f] = TRUE]
    /\ UNCHANGED <<calls, source, parseFut, joinVars, chainVars, doVars, valVars>>

\* Delivery by one of the handlers of from, then the next hop of the chain.
FromDeliver(h, c, next) ==
    /\ SetHeap([(IF c.delivers THEN Resolve(h, fromFut, err(c.reason)) ELSE h)
                 EXCEPT !.queue = Append(@, FromJob(next,
                    IF c.throws THEN [st |-> "rejected", res |-> c.thrown]
                    ELSE Undefined))])
    /\ calls' = IF c.delivers
                THEN [calls EXCEPT ![fromFut] = Append(@, [kind |-> "err", v |-> c.reason])]
                ELSE calls

\* promise.then(ok): ok(v) on fulfilment; a rejection passes to the catch.
RunFromThen ==
    /\ queue # <<>>
    /\ Head(queue).kind = "fromThen"
    /\ LET out == Head(queue).arg
           h == [Heap EXCEPT !.queue = Tail(@)]
       IN IF out.st = "fulfilled"
          THEN /\ SetHeap([Resolve(h, fromFut, ok(out.res))
                            EXCEPT !.queue = Append(@, FromJob("fromCatch", Undefined))])
               /\ calls' = [calls EXCEPT ![fromFut] =
                                Append(@, [kind |-> "ok", v |-> out.res])]
          ELSE /\ SetHeap([h EXCEPT !.queue = Append(@, FromJob("fromCatch", out))])
               /\ UNCHANGED calls
    /\ UNCHANGED <<nextId, handles, source, fromFut, parseFut, joinVars, chainVars, doVars, valVars>>

\* .catch(errorValue => ...): classifies the reason and calls err.
RunFromCatch ==
    /\ queue # <<>>
    /\ Head(queue).kind = "fromCatch"
    /\ LET out == Head(queue).arg
           h == [Heap EXCEPT !.queue = Tail(@)]
       IN IF out.st = "rejected"
          THEN FromDeliver(h, FromCatch(out.res), "fromCatchAgain")
          ELSE /\ SetHeap([h EXCEPT !.queue = Append(@, FromJob("fromCatchAgain", out))])
               /\ UNCHANGED calls
    /\ UNCHANGED <<nextId, handles, source, fromFut, parseFut, joinVars, chainVars, doVars, valVars>>

\* .catch(error => ...): what the first handler threw becomes the reason.
RunFromCatchAgain ==
    /\ queue # <<>>
    /\ Head(queue).kind = "fromCatchAgain"
    /\ LET out == Head(queue).arg
           h == [Heap EXCEPT !.queue = Tail(@)]
       IN IF out.st = "rejected"
          THEN LET c == FromCatchAgain(out.res)
               IN /\ SetHeap(IF c.delivers THEN Resolve(h, fromFut, err(c.reason))
                             ELSE h)
                  /\ calls' = IF c.delivers
                              THEN [calls EXCEPT ![fromFut] =
                                       Append(@, [kind |-> "err", v |-> c.reason])]
                              ELSE calls
          ELSE /\ SetHeap(h)
               /\ UNCHANGED calls
    /\ UNCHANGED <<nextId, handles, source, fromFut, parseFut, joinVars, chainVars, doVars, valVars>>

FromMicrotask == RunFromThen \/ RunFromCatch \/ RunFromCatchAgain

NextFrom == SettleSource \/ From \/ FromMicrotask

SpecFrom == Init /\ [][NextFrom]_vars /\ WF_vars(FromMicrotask)

\* ------------------------------------------------------------- scenario: from in a join
\* Future.ok(value): the initializer calls ok(value) and keeps nothing.
OkInitializerLate(v) == [prog |-> <<>>, throws |-> FALSE, escapes |-> TRUE]

OkInitializer(v) ==
    [prog |-> <<[kind |-> "ok", v |-> v]>>, throws |-> FALSE, escapes |-> FALSE]

\* Future.err(reason): the initializer calls err(reason) and keeps nothing.
ErrInitializer(e) ==
    [prog |-> <<[kind |-> "err", v |-> e]>>, throws |-> FALSE, escapes |-> FALSE]

Statics == {f \in FutIds : link[f].kind \in {"ok", "err"}}

Static(kind, init, v) ==
    /\ joinFut = 0
    /\ nextId < MaxFut
    /\ Cardinality(Statics) < MaxStatic
    /\ NewFuture(nextId, init)
    /\ link' = [link EXCEPT ![nextId] = [kind |-> kind, recv |-> 0]]
    /\ called' = [called EXCEPT ![nextId] = <<v>>]
    /\ UNCHANGED <<ret, derived, seen, joinVars, fromVars, doVars, valVars>>

FutureOk == \E v \in Val : Static("ok", OkInitializer(v), v)

FutureErr == \E e \in Val : Static("err", ErrInitializer(e), e)

\* Future.ok and Future.err values and a Future.from(promise) are built, and
\* Future.join is called on the Futures built so far.
NextFromJoin ==
    FutureOk \/ FutureErr \/ SettleSource \/ From \/ FromMicrotask \/ Join \/ Microtask

SpecFromJoin ==
    Init /\ [][NextFromJoin]_vars /\ WF_vars(FromMicrotask) /\ WF_vars(Microtask)

\* ------------------------------------------------------------- scenario: parse
\* What the promise given to Future.parse settles with: a Result or an
\* Option (both have a futureExecutor), or a rejection.
Parsed ==
    {[st |-> "fulfilled", res |-> [shape |-> "result", obj |-> r]] :
        r \in {ok(v) : v \in Val} \cup {err(e) : e \in Val}}
    \cup {[st |-> "fulfilled", res |-> [shape |-> "option", obj |-> o]] :
        o \in {[isSome |-> TRUE, value |-> v] : v \in Val}
              \cup {[isSome |-> FALSE, value |-> Null]}}
    \cup {[st |-> "rejected", res |-> Thrown]}

SettleParsed ==
    \E out \in Parsed :
        /\ source.st = "pending"
        /\ source' = out
        /\ queue' = IF parseFut = 0 THEN queue
                    ELSE Append(queue, FromJob("parseThen", out))
        /\ UNCHANGED <<state, value, reactions, nextId, handles, calls, fromFut,
                       parseFut, joinVars, chainVars, doVars, valVars>>

\* Future.parse(promise): the initializer registers promise.then(...).
Parse ==
    /\ parseFut = 0
    /\ joinFut = 0
    /\ LET f == nextId
           h == Construct(Heap, f, [prog |-> <<>>, throws |-> FALSE, escapes |-> TRUE])
       IN /\ SetHeap(IF source.st = "pending" THEN h
                     ELSE [h EXCEPT !.queue = Append(@, FromJob("parseThen", source))])
          /\ parseFut' = f
          /\ nextId' = f + 1
          /\ handles' = [handles EXCEPT ![f] = TRUE]
    /\ UNCHANGED <<calls, source, fromFut, joinVars, chainVars, doVars, valVars>>

ParseRejectedCaught(h, f, reason) == Resolve(h, f, err(reason))

\* promise.then(onFulfilled) has no onRejected: a rejection of the promise
\* only rejects the promise then() returned, which nobody holds.
ParseRejected(h, f, reason) == h

\* result => result.futureExecutor(ok, err); a rejection has no handler.
RunParseThen ==
    /\ queue # <<>>
    /\ Head(queue).kind = "parseThen"
    /\ LET out == Head(queue).arg
           h == [Heap EXCEPT !.queue = Tail(@)]
       IN IF out.st = "fulfilled"
          THEN LET r == IF out.res.shape = "result" THEN ResultDelivers(out.res.obj)
                        ELSE OptionDelivers(out.res.obj)
               IN /\ SetHeap(Resolve(h, parseFut, r))
                  /\ calls' = [calls EXCEPT ![parseFut] = Append(@, StepOf(r))]
          ELSE /\ SetHeap(ParseRejected(h, parseFut, out.res))
               /\ UNCHANGED calls
    /\ UNCHANGED <<nextId, handles, source, fromFut, parseFut, joinVars, chainVars, doVars, valVars>>

\* Future.ok and Future.err values and a Future.parse(promise) are built,
\* and Future.join is called on the Futures built so far.
NextParse ==
    FutureOk \/ FutureErr \/ SettleParsed \/ Parse \/ RunParseThen \/ Join \/ Microtask

SpecParse ==
    Init /\ [][NextParse]_vars /\ WF_vars(RunParseThen) /\ WF_vars(Microtask)

\* ------------------------------------------------------------- scenario: do
DoFuts == {f \in FutIds : link[f].kind = "do"}

\* Future.do(fn): the worker for fn.toString() is taken from the pool or
\* created, its onmessage is set to deliver to the new Future, and a request
\* is posted.
Do ==
    \E str \in Sources :
        /\ Cardinality(DoFuts) < MaxDo
        /\ LET f == nextId
           IN /\ SetHeap(Construct(Heap, f,
                    [prog |-> <<>>, throws |-> FALSE, escapes |-> TRUE]))
              /\ nextId' = f + 1
              /\ handles' = [handles EXCEPT ![f] = TRUE]
              /\ link' = [link EXCEPT ![f] = [kind |-> "do", recv |-> 0]]
              /\ called' = [called EXCEPT ![f] = <<str>>]
              /\ workers' = [workers EXCEPT ![str] =
                    [created |-> TRUE, onmessage |-> f,
                     inbox |-> @.inbox + 1, outbox |-> @.outbox]]
        /\ UNCHANGED <<calls, ret, derived, seen, joinVars, fromVars, valVars>>

\* The worker takes a request, runs main() and posts the reply.
WorkerRun ==
    \E str \in Sources :
        /\ workers[str].inbox > 0
        /\ workers' = [workers EXCEPT ![str].inbox = @ - 1,
                                      ![str].outbox = Append(@, Runs(str))]
        /\ UNCHANGED <<state, value, reactions, queue, nextId, handles, calls,
                       joinVars, chainVars, fromVars, valVars>>

\* worker.onmessage runs for a reply: ok(value) or err(new Panic(message)).
OnMessage ==
    \E str \in Sources :
        /\ workers[str].outbox # <<>>
        /\ LET data == Head(workers[str].outbox)
               f == workers[str].onmessage
               r == IF data.isOk THEN ok(data.value) ELSE err(Panic(data.value.message))
           IN /\ SetHeap(Resolve(Heap, f, r))
              /\ calls' = [calls EXCEPT ![f] =
                    Append(@, [kind |-> IF data.isOk THEN "ok" ELSE "err", v |-> r.value])]
        /\ workers' = [workers EXCEPT ![str].outbox = Tail(@)]
        /\ UNCHANGED <<nextId, handles, joinVars, chainVars, fromVars, valVars>>

NextDo == Do \/ WorkerRun \/ OnMessage

\* Workers run the requests posted to them and the event loop dispatches
\* their replies.
SpecDo == Init /\ [][NextDo]_vars /\ WF_vars(WorkerRun) /\ WF_vars(OnMessage)

\* ------------------------------------------------------------- scenario: values
\* Options and Results are built and any of their methods is called on any
\* of them, in any order.
Options == {i \in 1..Len(objs) : objs[i].class = "Option"}
Results == {i \in 1..Len(objs) : objs[i].class = "Result"}

Apply(op, r, arg, shape, res) ==
    /\ Len(res.objs) <= MaxObjs
    /\ objs' = res.objs
    /\ last' = [op |-> op, recv |-> r, arg |-> arg, shape |-> shape, out |-> res.out,
                 invoked |-> res.invoked]
    /\ UNCHANGED <<state, value, reactions, queue, nextId, handles, calls,
                   joinVars, chainVars, fromVars, doVars>>

Some == \E v \in Val : Apply("some", 0, v, "", OptionSome(objs, v))
None == Apply("none", 0, Null, "", OptionNone(objs))
Ok == \E v \in Val : Apply("ok", 0, v, "", ResultOk(objs, v))
Err == \E e \in Val : Apply("err", 0, e, "", ResultErr(objs, e))

OptionCall ==
    \E r \in Options :
        \/ Apply("Option.unwrap", r, Null, "", OptionUnwrap(objs, r))
        \/ \E d \in Val : Apply("Option.unwrapOr", r, d, "", OptionUnwrapOr(objs, r, d))
        \/ \E d \in Val : Apply("Option.unwrapOrElse", r, d, "", OptionUnwrapOrElse(objs, r, d))
        \/ Apply("Option.map", r, Null, "", OptionMap(objs, r))
        \/ \E other \in Options : Apply("Option.or", r, other, "", OptionOr(objs, r, other))
        \/ \E shape \in {"some", "none"} :
              Apply("Option.orElse", r, Null, shape, OptionOrElse(objs, r, shape))
        \/ \E other \in Options : Apply("Option.and", r, other, "", OptionAnd(objs, r, other))
        \/ \E shape \in {"some", "none", "nested"} :
              Apply("Option.andThen", r, Null, shape, OptionAndThen(objs, r, shape))
        \/ Apply("Option.match", r, Null, "", OptionMatch(objs, r))

ResultCall ==
    \E r \in Results :
        \/ \E res \in Results : Apply("Result.and", r, res, "", ResultAnd(objs, r, res))
        \/ \E res \in Results : Apply("Result.or", r, res, "", ResultOr(objs, r, res))
        \/ \E shape \in {"ok", "err"} :
              Apply("Result.andThen", r, Null, shape, ResultAndThen(objs, r, shape))
        \/ \E shape \in {"ok", "err"} :
              Apply("Result.orElse", r, Null, shape, ResultOrElse(objs, r, shape))
        \/ Apply("Result.unwrap", r, Null, "", ResultUnwrap(objs, r))
        \/ Apply("Result.unwrapErr", r, Null, "", ResultUnwrapErr(objs, r))
        \/ \E d \in Val : Apply("Result.unwrapOr", r, d, "", ResultUnwrapOr(objs, r, d))
        \/ \E d \in Val : Apply("Result.unwrapOrElse", r, d, "", ResultUnwrapOrElse(objs, r, d))
        \/ Apply("Result.map", r, Null, "", ResultMap(objs, r))
        \/ Apply("Result.mapErr", r, Null, "", ResultMapErr(objs, r))
        \/ Apply("Result.match", r, Null, "", ResultMatch(objs, r))

\* Options and Results side by side, with every payload of Val; such a
\* scenario holds one instance fewer than MaxObjs.
Mixed == Len(objs') < MaxObjs

NextValues ==
    \/ Some /\ Mixed
    \/ None /\ Mixed
    \/ Ok /\ Mixed
    \/ Err /\ Mixed
    \/ OptionCall /\ Mixed
    \/ ResultCall /\ Mixed

SpecValues == Init /\ [][NextValues]_vars

\* ------------------------------------------------------------- scenario: options
\* Options only, built as some(1) and none() and by the methods themselves.
Some1 == Apply("some", 0, 1, "", OptionSome(objs, 1))

NextOption == Some1 \/ None \/ OptionCall

SpecOption == Init /\ [][NextOption]_vars

\* ------------------------------------------------------------- scenario: results
\* Results only, built as ok(1) and err(1) and by the methods themselves.
Ok1 == Apply("ok", 0, 1, "", ResultOk(objs, 1))
Err1 == Apply("err", 0, 1, "", ResultErr(objs, 1))

NextResult == Ok1 \/ Err1 \/ ResultCall

SpecResult == Init /\ [][NextResult]_vars

\* ------------------------------------------------------------- properties
\* The members of the join with their Results, as the caller passed them.
MemberResults == [i \in Members |-> value[i]]

AllMembersSettled ==
    /\ joinFut # 0
    /\ \A m \in Members : state[m] = "fulfilled"

JoinSettled == joinFut # 0 /\ state[joinFut] = "fulfilled"

ExpectedErrors ==
    LET IsErr(r) == ~r.isOk
        errs == SelectSeq(MemberResults, IsErr)
    IN [i \in 1..Len(errs) |-> errs[i].value]

ExpectedValues == [i \in Members |-> value[i].value]

\* C1: a Future is settled at most once, with the Result of the first
\* invocation of a delivery callback; every later invocation of either
\* callback leaves the settled Result as it is.
C1_FirstCallWins ==
    [][\A f \in FutIds :
          /\ state'[f] = "fulfilled" =>
                /\ calls'[f] # <<>>
                /\ value'[f] = ResultOf(calls'[f][1])
          /\ state[f] = "fulfilled" =>
                /\ state'[f] = "fulfilled"
                /\ value'[f] = value[f]]_vars

\* A settled Future whose callbacks were invoked again with another Result.
C1_Witness ==
    /\ state[1] = "fulfilled"
    /\ Len(calls[1]) = MaxCalls
    /\ calls[1][1].kind = "err"
    /\ calls[1][2].kind = "ok"
    /\ calls[1][MaxCalls] # calls[1][1]
    /\ value[1] = err(calls[1][1].v)

\* C2: every Future is pending or fulfilled with a Result, never rejected,
\* whatever its initializer does.
C2_NeverRejected ==
    \A f \in FutIds : state[f] # "rejected"

\* C3: Future.join never short-circuits: whenever the Future it returned is
\* settled, every member is settled; an early Err member or a member that
\* never settles leaves it pending.
C3_JoinWaitsForAll ==
    JoinSettled => \A m \in Members : state[m] = "fulfilled"

\* An Err member has reported to the join while another member is pending,
\* nothing is left to run, and the join is still pending.
C3_Witness ==
    /\ joinFut # 0
    /\ state[joinFut] = "pending"
    /\ queue = <<>>
    /\ \E m \in Members : state[m] = "fulfilled" /\ ~value[m].isOk
                            /\ \E k \in 1..Len(all.order) : all.order[k] = m
    /\ \E m \in Members : state[m] = "pending"

\* C4: with at least one Err member the join settles Err with exactly the
\* error payloads of the Err members in input order, whatever the order in
\* which the members settle, and once all members are settled it does settle.
C4_JoinErrInInputOrder ==
    LET SomeErr == AllMembersSettled /\ \E m \in Members : ~value[m].isOk
        Delivered == JoinSettled /\ ~value[joinFut].isOk
                     /\ value[joinFut].value = ExpectedErrors
    IN /\ [](JoinSettled /\ SomeErr => Delivered)
       /\ (SomeErr ~> Delivered)

\* join([ok, err 1, err 2]) whose last member reported first: Err([1, 2]).
C4_Witness ==
    /\ JoinSettled
    /\ Len(all.order) = 3
    /\ all.order[1] = 3
    /\ value[1].isOk
    /\ value[2] = err(1)
    /\ value[3] = err(2)
    /\ value[joinFut] = err(<<1, 2>>)

\* C5: when every member settles Ok the join eventually settles Ok with the
\* members' values in input order, whatever the order in which they settle.
C5_JoinOkInInputOrder ==
    LET AllOk == AllMembersSettled /\ \A m \in Members : value[m].isOk
        Delivered == JoinSettled /\ value[joinFut].isOk
                     /\ value[joinFut].value = ExpectedValues
    IN /\ [](JoinSettled /\ AllOk => Delivered)
       /\ (AllOk ~> Delivered)

\* join([ok 1, ok 2, ok 1]) whose members reported in the order 2, 3, 1.
C5_Witness ==
    /\ JoinSettled
    /\ all.order = <<2, 3, 1>>
    /\ value[joinFut] = ok(<<1, 2, 1>>)

\* ---- combinators
\* Eventualities are stated as []<>(P => Q): P and Q, once true, stay true (a
\* settled Future and a made call do not change), so this is P ~> Q.
IsLink(d, kind) == link[d].kind = kind

RecvOk(d) == state[link[d].recv] = "fulfilled" /\ value[link[d].recv].isOk

RecvErr(d) == state[link[d].recv] = "fulfilled" /\ ~value[link[d].recv].isOk

RecvPayload(d) == value[link[d].recv].value

Fulfilled(d) == state[d] = "fulfilled"

\* The Result a Future returned by andThen/orElse has to carry, given what
\* its continuation returned: that of the returned Future, the returned
\* Result itself, or Ok(v) for some(v) and Err(null) for none.
AdoptsReturn(d) ==
    LET r == ret[d]
    IN \/ r.shape = "future" /\ state[r.inner] = "fulfilled"
                             /\ value[d].isOk = value[r.inner].isOk
                             /\ value[d].value = value[r.inner].value
       \/ r.shape = "result" /\ value[d].isOk = r.obj.isOk
                             /\ value[d].value = r.obj.value
       \/ r.shape = "option" /\ r.obj.isSome /\ value[d] = ok(r.obj.value)
       \/ r.shape = "option" /\ ~r.obj.isSome /\ value[d] = err(Null)

\* d ends a chain of andThen calls on Future 1 whose continuations each
\* returned Future.ok(x + 1).
RECURSIVE IncChain(_)
IncChain(d) ==
    /\ IsLink(d, "andThen")
    /\ ret[d].shape = "future"
    /\ calls[ret[d].inner] = <<[kind |-> "ok", v |-> Inc(called[d][1])]>>
    /\ ~handles[ret[d].inner]
    /\ (link[d].recv = 1 \/ IncChain(link[d].recv))

RECURSIVE Depth(_)
Depth(d) == IF link[d].recv = 1 THEN 1 ELSE 1 + Depth(link[d].recv)

\* C6: andThen on a receiver that settles Err(e) never invokes f, and the
\* Future it returned settles, with Err(e).
C6_AndThenOnErr ==
    /\ [](\A d \in FutIds : IsLink(d, "andThen") /\ RecvErr(d) =>
            /\ called[d] = <<>>
            /\ state[d] # "rejected"
            /\ Fulfilled(d) => value[d] = err(RecvPayload(d)))
    /\ []<>(\A d \in FutIds : IsLink(d, "andThen") /\ RecvErr(d) => Fulfilled(d))

\* Future.err(1).andThen(f) has settled Err(1) and f was not invoked.
C6_Witness ==
    \E d \in FutIds :
        /\ IsLink(d, "andThen")
        /\ link[d].recv = 1
        /\ calls[1] = <<[kind |-> "err", v |-> 1]>>
        /\ Fulfilled(d)
        /\ value[d] = err(1)
        /\ called[d] = <<>>

\* C7: andThen on a receiver that settles Ok(v) invokes f exactly once, with
\* v and not before the receiver has settled; the Future it returned carries
\* the branch and payload of what f returned (a Future once that has settled,
\* a Result, an Option); so k andThen steps returning Future.ok(x + 1) on
\* Future.ok(n) give Ok(n + k).
C7_AndThenOnOk ==
    /\ [](\A d \in FutIds : IsLink(d, "andThen") =>
            /\ Len(called[d]) <= 1
            /\ called[d] # <<>> => RecvOk(d) /\ called[d][1] = RecvPayload(d)
            /\ Fulfilled(d) /\ RecvOk(d) => Len(called[d]) = 1 /\ AdoptsReturn(d)
            /\ ret[d].shape \in {"result", "option"} => Fulfilled(d)
            /\ Fulfilled(d) /\ IncChain(d) /\ state[1] = "fulfilled" /\ value[1].isOk
                  => value[d] = ok(value[1].value + Depth(d)))
    /\ []<>(\A d \in FutIds : IsLink(d, "andThen") =>
              /\ RecvOk(d) => Len(called[d]) = 1
              /\ ret[d].shape = "future" /\ state[ret[d].inner] = "fulfilled"
                    => Fulfilled(d))

\* Future.ok(1).andThen(v => Future.ok(v + 1)).andThen(v => Future.ok(v + 1))
\* has settled Ok(3).
C7_Witness ==
    \E d \in FutIds :
        /\ IncChain(d)
        /\ Depth(d) = MaxChain
        /\ calls[1] = <<[kind |-> "ok", v |-> 1]>>
        /\ Fulfilled(d)
        /\ value[d] = ok(1 + MaxChain)

\* C8: orElse mirrors andThen: on Ok(v) it never invokes f and the Future it
\* returned settles Ok(v); on Err(e) it invokes f exactly once, with e, and
\* the Future it returned carries what f returned.
C8_OrElse ==
    /\ [](\A d \in FutIds : IsLink(d, "orElse") =>
            /\ RecvOk(d) => /\ called[d] = <<>>
                            /\ Fulfilled(d) => value[d] = ok(RecvPayload(d))
            /\ Len(called[d]) <= 1
            /\ called[d] # <<>> => RecvErr(d) /\ called[d][1] = RecvPayload(d)
            /\ Fulfilled(d) /\ RecvErr(d) => Len(called[d]) = 1 /\ AdoptsReturn(d)
            /\ ret[d].shape \in {"result", "option"} => Fulfilled(d))
    /\ []<>(\A d \in FutIds : IsLink(d, "orElse") =>
              /\ RecvOk(d) => Fulfilled(d)
              /\ RecvErr(d) => Len(called[d]) = 1
              /\ ret[d].shape = "future" /\ state[ret[d].inner] = "fulfilled"
                    => Fulfilled(d))

\* Future.err(1).orElse(f) with f returning Ok, then .orElse(g): f was invoked
\* once with 1, g was not invoked, and both Futures carry what f returned.
C8_Witness ==
    \E d, e \in FutIds :
        /\ IsLink(d, "orElse") /\ link[d].recv = 1
        /\ calls[1] = <<[kind |-> "err", v |-> 1]>>
        /\ called[d] = <<1>>
        /\ ret[d].shape = "future"
        /\ Fulfilled(d) /\ value[d] = ok(2)
        /\ IsLink(e, "orElse") /\ link[e].recv = d
        /\ called[e] = <<>>
        /\ Fulfilled(e) /\ value[e] = ok(2)

\* C9: map(f) on Ok(v) invokes f exactly once and the Future it returned
\* settles Ok(f(v)); on Err(e) it never invokes f and the Future it returned
\* settles Err(e).
C9_Map ==
    /\ [](\A d \in FutIds : IsLink(d, "map") =>
            /\ RecvErr(d) => /\ called[d] = <<>>
                             /\ Fulfilled(d) => value[d] = err(RecvPayload(d))
            /\ Len(called[d]) <= 1
            /\ called[d] # <<>> => RecvOk(d) /\ called[d][1] = RecvPayload(d)
            /\ Fulfilled(d) /\ RecvOk(d) =>
                  /\ Len(called[d]) = 1
                  /\ value[d] = ok(Inc(RecvPayload(d)))
            /\ ret[d].shape = "value" =>
                  Fulfilled(d) /\ value[d] = ok(ret[d].obj.value))
    /\ []<>(\A d \in FutIds : IsLink(d, "map") =>
              /\ RecvErr(d) => Fulfilled(d)
              /\ RecvOk(d) => Len(called[d]) = 1)

\* Future.ok(1).map(f).map(f) has settled Ok(3), f invoked once per step.
C9_Witness ==
    \E d, e \in FutIds :
        /\ IsLink(d, "map") /\ link[d].recv = 1
        /\ calls[1] = <<[kind |-> "ok", v |-> 1]>>
        /\ called[d] = <<1>>
        /\ IsLink(e, "map") /\ link[e].recv = d
        /\ called[e] = <<2>>
        /\ Fulfilled(e) /\ value[e] = ok(3)

\* --- from
FromSettled == fromFut # 0 /\ state[fromFut] = "fulfilled"

\* C10: Future.from(p): if p fulfils with v the Future settles Ok(v); if p
\* rejects the Future settles Err and never Ok, where a rejection payload
\* that is an Error instance is carried unchanged as the Err payload and a
\* non-Error object having a message field becomes a Panic carrying that
\* message.  The Future is never rejected, is pending while p is, and once p
\* has settled the Future eventually does.
C10_From ==
    /\ [](fromFut # 0 =>
            /\ state[fromFut] \in {"pending", "fulfilled"}
            /\ FromSettled =>
                /\ source.st # "pending"
                /\ source.st = "fulfilled" =>
                     value[fromFut].isOk /\ value[fromFut].value = source.res
                /\ source.st = "rejected" =>
                     /\ ~value[fromFut].isOk
                     /\ source.res.isError => value[fromFut].value = source.res
                     /\ (/\ source.res.typeof = "object"
                         /\ ~source.res.isError
                         /\ ~source.res.isNull
                         /\ source.res.hasMessage) =>
                            value[fromFut].value = Panic(source.res.message))
    /\ []<>((fromFut # 0 /\ source.st # "pending") => FromSettled)

\* from has settled Err(Panic(message)) for a promise rejected with a plain
\* object that has a message.
C10_Witness ==
    /\ FromSettled
    /\ source.st = "rejected"
    /\ source.res = PlainObject(TRUE, "boom")
    /\ value[fromFut] = err(Panic("boom"))

\* C11: Future.from(p) where p rejects with a payload that carries no message
\* (a primitive, undefined, null, or an object without a message field)
\* settles with Err(Panic) whose message is the string coercion of the
\* payload; rejecting with null gives Err(Panic("null")).
C11_NoMessageCoerced ==
    (/\ FromSettled
     /\ source.st = "rejected"
     /\ ~source.res.hasMessage) =>
        value[fromFut] = err(Panic(String(source.res)))

\* C12: liveness of Future.from: once the source promise has fulfilled or
\* rejected (with any payload, including none), the Future returned by from
\* eventually settles with Ok or Err, and a join containing it eventually
\* settles as well.
C12_FromSettles ==
    /\ []<>((fromFut # 0 /\ source.st # "pending") => FromSettled)
    /\ []<>((/\ fromFut # 0
             /\ joinFut # 0
             /\ fromFut < joinFut
             /\ source.st # "pending") => JoinSettled)

\* A join of a Future.ok and the from of a promise rejected without payload
\* has settled Err.
C12_Witness ==
    /\ JoinSettled
    /\ fromFut = 2
    /\ joinFut = 3
    /\ link[1].kind = "ok"
    /\ source = [st |-> "rejected", res |-> UndefinedValue]
    /\ value[joinFut] = err(<<Panic("undefined")>>)

\* C14: Future.ok(v) and Future.err(e) are settled at construction, without
\* waiting on any other event: Future.ok(v) carries Ok(v), Future.err(e)
\* carries Err(e), and neither later changes branch or payload.
C14_StaticSettled ==
    \A f \in Statics :
        /\ state[f] = "fulfilled"
        /\ value[f] = IF link[f].kind = "ok" THEN ok(called[f][1])
                      ELSE err(called[f][1])

\* A Future.err(2) that a join has observed and settled on.
C14_Witness ==
    /\ link[1].kind = "err"
    /\ called[1] = <<2>>
    /\ joinFut = 2
    /\ JoinSettled
    /\ value[joinFut] = err(<<2>>)

\* --- parse
ParseSettled == parseFut # 0 /\ state[parseFut] = "fulfilled"

ParsedResult == source.st = "fulfilled" /\ source.res.shape = "result"

\* C13: Future.parse(p) where p fulfils with a Result r settles with the
\* same branch and payload as r: Ok(v) if r is ok(v), Err(e) if r is err(e),
\* never the other branch; it is pending until p has fulfilled and settles
\* once p has.
C13_ParseForwards ==
    /\ [](parseFut # 0 =>
            /\ state[parseFut] \in {"pending", "fulfilled"}
            /\ ParseSettled => source.st = "fulfilled"
            /\ (ParseSettled /\ ParsedResult) => value[parseFut] = source.res.obj)
    /\ []<>((parseFut # 0 /\ ParsedResult) => ParseSettled)

\* parse of a promise fulfilled with err(1) has settled Err(1).
C13_Witness ==
    /\ ParseSettled
    /\ ParsedResult
    /\ source.res.obj = err(1)
    /\ value[parseFut] = err(1)

\* C15: there is no silent-failure outcome: when the continuation passed to
\* andThen, orElse or map raises, the consumer of the returned Future
\* observes an Err settlement or the fatal abort (a rejection nothing
\* handles); the failure is not turned into a discarded Result while the
\* returned Future stays pending with nothing left to run.
C15_NoSilentFailure ==
    \A d \in FutIds :
        (ret[d].shape = "throw" /\ queue = <<>>) =>
            \/ Fulfilled(d) /\ ~value[d].isOk
            \/ derived[d].st = "rejected"

\* --- observers
SeenBy(d) == {i \in 1..Len(seen) : seen[i].d = d}

Converted(d) == ret[d].shape \in {"result", "option", "future"}

\* C17: one call of the futureExecutor of an Option, a Result or a settling
\* Future with two callbacks invokes exactly one of the callbacks exactly
\* once: success with the payload for Some/Ok, failure with the error for
\* Err; for a Future the callback is invoked only after that Future has
\* settled.
C17_ExactlyOneCallback ==
    /\ [](\A d \in FutIds : Converted(d) =>
            /\ Len(calls[d]) <= 1
            /\ ret[d].shape = "result" => calls[d] = <<StepOf(ret[d].obj)>>
            /\ ret[d].shape = "option" =>
                  /\ Len(calls[d]) = 1
                  /\ ret[d].obj.isSome =>
                        calls[d] = <<[kind |-> "ok", v |-> ret[d].obj.value]>>
            /\ (ret[d].shape = "future" /\ calls[d] # <<>>) =>
                  /\ state[ret[d].inner] = "fulfilled"
                  /\ calls[d] = <<StepOf(value[ret[d].inner])>>)
    /\ []<>(\A d \in FutIds :
              (ret[d].shape = "future" /\ state[ret[d].inner] = "fulfilled")
                  => Len(calls[d]) = 1)

\* The futureExecutor of a Future that settled Err(1) later on has invoked
\* the failure callback with 1.
C17_Witness ==
    \E d \in FutIds :
        /\ ret[d].shape = "future"
        /\ handles[ret[d].inner]
        /\ value[ret[d].inner] = err(1)
        /\ calls[d] = <<[kind |-> "err", v |-> 1]>>

\* --- Option as a continuation's return value
NoneThenSome(d, e) ==
    /\ IsLink(d, "orElse")
    /\ link[d].recv = 1
    /\ RecvErr(d)
    /\ ret[d].shape = "option"
    /\ ~ret[d].obj.isSome
    /\ IsLink(e, "orElse")
    /\ link[e].recv = d
    /\ ret[e].shape = "option"
    /\ ret[e].obj.isSome

\* C18: an Option returned by a continuation of andThen / orElse is lifted
\* as a Result with an information-free error: some(v) settles the returned
\* Future with Ok(v) and none() settles it with Err(null); so
\* Future.err(e).orElse(() => none()).orElse(() => some(x)) settles Ok(x),
\* its second continuation having been given null.
C18_OptionLifted ==
    /\ \A d \in FutIds :
          ((IsLink(d, "andThen") \/ IsLink(d, "orElse")) /\ ret[d].shape = "option") =>
              /\ Fulfilled(d)
              /\ value[d] = IF ret[d].obj.isSome THEN ok(ret[d].obj.value)
                            ELSE err(Null)
    /\ \A d, e \in FutIds :
          NoneThenSome(d, e) =>
              /\ called[e] = <<Null>>
              /\ Fulfilled(e)
              /\ value[e] = ok(ret[e].obj.value)

\* Future.err(1).orElse(() => none()).orElse(() => some(...)) has settled Ok.
C18_Witness ==
    /\ calls[1] = <<[kind |-> "err", v |-> 1]>>
    /\ NoneThenSome(2, 3)
    /\ value[2] = err(Null)
    /\ value[3] = ok(Inc(Null))

\* --- do
\* Every worker has run every request and every reply has been dispatched.
WorkersIdle ==
    \A str \in Sources : workers[str].inbox = 0 /\ workers[str].outbox = <<>>

OwnOutcome(f) ==
    LET data == Runs(called[f][1])
    IN IF data.isOk THEN ok(data.value) ELSE err(Panic(data.value.message))

\* C19: every Future returned by Future.do(fn) settles with the outcome of
\* its own execution of fn (Ok with the return value, Err(Panic) if fn
\* throws) under every interleaving of calls and worker replies, also for two
\* calls with functions of identical source text where the second is made
\* before the worker has replied to the first: once the workers have replied
\* to every request, no such Future is left pending.
C19_DoSettles ==
    WorkersIdle =>
        \A f \in DoFuts : Fulfilled(f) /\ value[f] = OwnOutcome(f)

\* --- values
\* C20: for every Option exactly one of isSome() / isNone() is true and for
\* every Result exactly one of isOk() / isErr() (some(x) is Some, none() is
\* None, ok(x) is Ok, err(e) is Err), and neither the tag nor the payload of
\* a value changes after construction under any sequence of operations
\* called on it.
C20_TagsExclusiveAndStable ==
    /\ [](/\ \A i \in Options : isSome(objs[i]) # isNone(objs[i])
          /\ \A i \in Results : isOk(objs[i]) # isErr(objs[i])
          /\ (last.op = "some" /\ last.out.kind = "ref") => isSome(objs[last.out.v])
          /\ (last.op = "none" /\ last.out.kind = "ref") => isNone(objs[last.out.v])
          /\ last.op = "ok" => isOk(objs[last.out.v])
          /\ last.op = "err" => isErr(objs[last.out.v]))
    /\ [][/\ Len(objs') >= Len(objs)
          /\ \A i \in 1..Len(objs) : objs'[i] = objs[i]]_vars

\* map has been called on a some(1) that is still the some(1) it was built as.
C20_Witness ==
    /\ last.op = "Option.map"
    /\ last.recv = 2
    /\ objs[2] = OptionObject(TRUE, 1)
    /\ last.out = Ref(3)
    /\ objs[3] = OptionObject(TRUE, 2)


\* The instance the last call was made on, and how often that call invoked
\* the callback fn, and with what.
Recv == objs[last.recv]
Invocations(fn) == {i \in DOMAIN last.invoked : last.invoked[i].fn = fn}
Times(fn) == Cardinality(Invocations(fn))
InvokedOnceWith(fn, arg) ==
    /\ Times(fn) = 1
    /\ \A i \in Invocations(fn) : last.invoked[i].arg = arg

\* C21: the unwrap accessors return the payload on the matching branch and
\* panic, returning no value, on the other: some(x).unwrap() is x and
\* none().unwrap() panics; ok(x).unwrap() is x and err(e).unwrap() panics;
\* err(e).unwrapErr() is e and ok(x).unwrapErr() panics.
C21_UnwrapOrPanic ==
    /\ last.op = "Option.unwrap" =>
          /\ isSome(Recv) => last.out = Payload(Recv.value)
          /\ isNone(Recv) => last.out = Panics
    /\ last.op = "Result.unwrap" =>
          /\ isOk(Recv) => last.out = Payload(Recv.value)
          /\ isErr(Recv) => last.out = Panics
    /\ last.op = "Result.unwrapErr" =>
          /\ isErr(Recv) => last.out = Payload(Recv.value)
          /\ isOk(Recv) => last.out = Panics

\* none().unwrap() has panicked.
C21_Witness ==
    /\ last.op = "Option.unwrap"
    /\ last.recv = NoneRef
    /\ last.out = Panics


\* C22: Result.and and Result.or hand back one of the two instances they
\* were given and build none: ok(x).and(r) is r itself, err(e).and(r) is the
\* receiver itself, ok(x).or(r) is the receiver itself and err(e).or(r) is r
\* itself.
C22_AndOrIdentity ==
    [][/\ last'.op = "Result.and" =>
             /\ objs' = objs
             /\ last'.out = Ref(IF isOk(objs[last'.recv]) THEN last'.arg ELSE last'.recv)
       /\ last'.op = "Result.or" =>
             /\ objs' = objs
             /\ last'.out = Ref(IF isOk(objs[last'.recv]) THEN last'.recv ELSE last'.arg)]_vars

\* err(e).and(r) with another instance r has returned the receiver.
C22_Witness ==
    /\ last.op = "Result.and"
    /\ isErr(Recv)
    /\ last.arg # last.recv
    /\ last.out = Ref(last.recv)


\* The Result a callback v => ok(v + 1) / v => err(v + 1) builds from v.
Built(shape, v) == ResultObject(shape = "ok", Inc(v))

\* The call just made invoked f once, with arg, and returned the instance f
\* built; or it invoked nothing and returned its receiver.
ReturnsWhatFBuilt(arg) ==
    /\ last'.invoked = <<[fn |-> "f", arg |-> arg]>>
    /\ objs' = Append(objs, Built(last'.shape, arg))
    /\ last'.out = Ref(Len(objs'))
ReturnsReceiver ==
    /\ last'.invoked = <<>>
    /\ objs' = objs
    /\ last'.out = Ref(last'.recv)

\* Two andThen(v => ok(v + 1)) in a row, the second on the result of the
\* first, the first on an ok(1).
ChainedOnOk1 ==
    /\ last.op = "Result.andThen" /\ last.shape = "ok"
    /\ objs[last.recv] = ResultObject(TRUE, 1)
    /\ last'.op = "Result.andThen" /\ last'.shape = "ok"
    /\ last'.recv = last.out.v

\* C23: Result.andThen(f) invokes f exactly once with the payload and
\* returns f's result when the receiver is Ok, and returns the receiver itself
\* without invoking f when it is Err; Result.orElse(f) invokes f exactly once
\* with the error and returns its result when the receiver is Err, and returns
\* the receiver itself without invoking f when it is Ok; so
\* ok(1).andThen(v => ok(v + 1)).andThen(v => ok(v + 1)) is Ok(3).
C23_AndThenOrElse ==
    [][/\ last'.op = "Result.andThen" =>
             IF isOk(objs[last'.recv]) THEN ReturnsWhatFBuilt(objs[last'.recv].value)
             ELSE ReturnsReceiver
       /\ last'.op = "Result.orElse" =>
             IF isErr(objs[last'.recv]) THEN ReturnsWhatFBuilt(objs[last'.recv].value)
             ELSE ReturnsReceiver
       /\ ChainedOnOk1 => objs'[last'.out.v] = ResultObject(TRUE, 3)]_vars

\* ok(1).andThen(v => ok(v + 1)).andThen(v => ok(v + 1)) has returned Ok(3).
C23_Witness ==
    /\ objs = <<OptionObject(FALSE, Null), ResultObject(TRUE, 1),
                ResultObject(TRUE, 2), ResultObject(TRUE, 3)>>
    /\ last.op = "Result.andThen"
    /\ last.recv = 3
    /\ last.invoked = <<[fn |-> "f", arg |-> 2]>>
    /\ last.out = Ref(4)


\* The call just made invoked f once, on the payload of its receiver, and
\* returned a new instance obj; or it invoked nothing, built nothing and
\* returned the instance at r.
MapsTo(obj) ==
    /\ last'.invoked = <<[fn |-> "f", arg |-> objs[last'.recv].value]>>
    /\ objs' = Append(objs, obj)
    /\ last'.out = Ref(Len(objs'))
Skips(r) ==
    /\ last'.invoked = <<>>
    /\ objs' = objs
    /\ last'.out = Ref(r)

\* C24: map applies its function only to the success payload: some(x).map(f)
\* is Some(f(x)) and none().map(f) is None with f never invoked; ok(x).map(f)
\* is Ok(f(x)) and err(e).map(f) is Err(e) with f never invoked;
\* err(e).mapErr(g) is Err(g(e)) and ok(x).mapErr(g) is Ok(x) with g never
\* invoked.
C24_MapOnlySuccess ==
    [][LET r == last'.recv
       IN /\ last'.op = "Option.map" =>
                IF isSome(objs[r]) THEN MapsTo(OptionObject(TRUE, Inc(objs[r].value)))
                ELSE Skips(NoneRef)
          /\ last'.op = "Result.map" =>
                IF isOk(objs[r]) THEN MapsTo(ResultObject(TRUE, Inc(objs[r].value)))
                ELSE Skips(r)
          /\ last'.op = "Result.mapErr" =>
                IF isErr(objs[r]) THEN MapsTo(ResultObject(FALSE, Inc(objs[r].value)))
                ELSE Skips(r)]_vars

\* err(e).map(f) has returned the Err without invoking f.
C24_Witness ==
    /\ last.op = "Result.map"
    /\ isErr(Recv)
    /\ last.invoked = <<>>
    /\ last.out = Ref(last.recv)


\* What the callback of the andThen just made returned, called with x: the
\* Option it built (the last instance), or Option._none.
OtherReturned(x) ==
    IF last'.shape = "some"
    THEN /\ objs' = Append(objs, OptionObject(TRUE, Inc(x)))
         /\ last'.out = Ref(Len(objs'))
    ELSE IF last'.shape = "nested"
    THEN /\ objs' = objs \o <<OptionObject(TRUE, 2), OptionObject(TRUE, x + 2)>>
         /\ last'.out = Ref(Len(objs'))
    ELSE /\ objs' = objs
         /\ last'.out = Ref(NoneRef)

\* C25: Option.and(other) returns other when the receiver is Some and None
\* otherwise; Option.andThen(f) returns f(value) with f invoked exactly once
\* when the receiver is Some, and returns None without invoking f when the
\* receiver is None; so some(1).andThen(x => some(2).map(y => x + y)) is
\* Some(3) and none().andThen(...) is None.
C25_AndAndThen ==
    [][LET r == last'.recv
       IN /\ last'.op = "Option.and" =>
                /\ objs' = objs
                /\ last'.invoked = <<>>
                /\ last'.out = Ref(IF isSome(objs[r]) THEN last'.arg ELSE NoneRef)
          /\ last'.op = "Option.andThen" =>
                IF isSome(objs[r])
                THEN /\ Cardinality({i \in DOMAIN last'.invoked :
                                        last'.invoked[i].fn = "other"}) = 1
                     /\ last'.invoked[1] = [fn |-> "other", arg |-> objs[r].value]
                     /\ OtherReturned(objs[r].value)
                ELSE /\ objs' = objs
                     /\ last'.invoked = <<>>
                     /\ last'.out = Ref(NoneRef)
          /\ (last'.op = "Option.andThen" /\ last'.shape = "nested"
                /\ objs[r] = OptionObject(TRUE, 1)) =>
                objs'[last'.out.v] = OptionObject(TRUE, 3)]_vars

\* some(1).andThen(x => some(2).map(y => x + y)) has returned Some(3).
C25_Witness ==
    /\ objs = <<OptionObject(FALSE, Null), OptionObject(TRUE, 1),
                OptionObject(TRUE, 2), OptionObject(TRUE, 3)>>
    /\ last.op = "Option.andThen"
    /\ last.shape = "nested"
    /\ last.recv = 2
    /\ Times("other") = 1
    /\ last.out = Ref(4)


\* C26: Option.or(other) returns the receiver itself when it is Some and
\* other when it is None; Option.orElse(f) returns the receiver itself without
\* invoking f when it is Some, and returns f() with f invoked exactly once
\* when it is None.
C26_OrOrElse ==
    [][LET r == last'.recv
       IN /\ last'.op = "Option.or" =>
                /\ objs' = objs
                /\ last'.invoked = <<>>
                /\ last'.out = Ref(IF isSome(objs[r]) THEN r ELSE last'.arg)
          /\ last'.op = "Option.orElse" =>
                IF isSome(objs[r])
                THEN /\ objs' = objs
                     /\ last'.invoked = <<>>
                     /\ last'.out = Ref(r)
                ELSE /\ last'.invoked = <<[fn |-> "defaultValue", arg |-> Null]>>
                     /\ IF last'.shape = "some"
                        THEN /\ objs' = Append(objs, OptionObject(TRUE, 1))
                             /\ last'.out = Ref(Len(objs'))
                        ELSE /\ objs' = objs
                             /\ last'.out = Ref(NoneRef)]_vars

\* none().orElse(() => some(1)) has invoked its callback once and returned
\* the Some it built.
C26_Witness ==
    /\ last.op = "Option.orElse"
    /\ last.recv = NoneRef
    /\ InvokedOnceWith("defaultValue", Null)
    /\ last.out = Ref(Len(objs))
    /\ objs[Len(objs)] = OptionObject(TRUE, 1)


\* The last call ran the one branch function fn, once, with arg, and
\* returned what it computed.
RanOnly(fn, arg, result) ==
    /\ last.invoked = <<[fn |-> fn, arg |-> arg]>>
    /\ last.out = Payload(result)

\* C27: match is exhaustive: each call of Option.match or Result.match runs
\* exactly one of its two branch functions exactly once, never both and never
\* neither (the Some / Ok branch with the payload when the tag is Some / Ok,
\* otherwise the None / Err branch), and returns that branch's result.
C27_MatchExhaustive ==
    /\ last.op = "Option.match" =>
          IF isSome(Recv) THEN RanOnly("some", Recv.value, Inc(Recv.value))
          ELSE RanOnly("none", Null, Null)
    /\ last.op = "Result.match" =>
          IF isOk(Recv) THEN RanOnly("ok", Recv.value, Inc(Recv.value))
          ELSE RanOnly("err", Recv.value, Recv.value)

\* err(e).match(ok, err) has run err(e) alone and returned its result.
C27_Witness ==
    /\ last.op = "Result.match"
    /\ isErr(Recv)
    /\ Times("err") = 1
    /\ Times("ok") = 0
    /\ last.out = Payload(Recv.value)


\* C28: unwrapOr(d) and unwrapOrElse(f) never panic: on Some / Ok they
\* return the payload and unwrapOrElse does not invoke f; on None / Err
\* unwrapOr returns d and unwrapOrElse returns f() with f invoked exactly
\* once.
C28_UnwrapOrNeverPanics ==
    /\ last.op \in {"Option.unwrapOr", "Result.unwrapOr"} =>
          /\ last.invoked = <<>>
          /\ last.out = Payload(IF Recv.tag THEN Recv.value ELSE last.arg)
    /\ last.op \in {"Option.unwrapOrElse", "Result.unwrapOrElse"} =>
          IF Recv.tag
          THEN /\ last.invoked = <<>>
               /\ last.out = Payload(Recv.value)
          ELSE /\ InvokedOnceWith("defaultValue", Null)
               /\ Len(last.invoked) = 1
               /\ last.out = Payload(last.arg)

\* none().unwrapOrElse(f) has invoked f once and returned what it returned.
C28_Witness ==
    /\ last.op = "Option.unwrapOrElse"
    /\ last.recv = NoneRef
    /\ Times("defaultValue") = 1
    /\ last.out = Payload(last.arg)
    /\ last.out # Panics


\* ---- join of no Futures
\* Future.join([]) was called: the Future it returned is the first one made.
EmptyJoin == joinFut = 1
EmptyJoinOk ==
    /\ EmptyJoin
    /\ state[1] = "fulfilled"
    /\ value[1].isOk
    /\ value[1].value = <<>>

\* C29: Future.join of an empty sequence eventually settles with Ok of the
\* empty list: it does not stay pending and it never settles Err.
C29_EmptyJoinOk ==
    /\ [](EmptyJoin /\ state[1] # "pending" => EmptyJoinOk)
    /\ (EmptyJoin ~> EmptyJoinOk)

\* Future.join([]) has settled with Ok([]).
C29_Witness ==
    /\ EmptyJoinOk
    /\ all.order = <<>>


\* ---- parse of a promise that rejects
ParseOfRejected == parseFut # 0 /\ source.st = "rejected"

\* C30: Future.parse(p) where p rejects delivers to neither callback: parse,
\* unlike from, has no failure handler, so the returned Future is pending in
\* every state from the rejection on and never settles Ok or Err.
C30_ParseOfRejectedPending ==
    ParseOfRejected =>
        /\ state[parseFut] = "pending"
        /\ calls[parseFut] = <<>>

\* The promise given to parse has rejected, the job this queued has run, and
\* the Future is pending.
C30_Witness ==
    /\ ParseOfRejected
    /\ queue = <<>>
    /\ state[parseFut] = "pending"
====
